---- MODULE Spec2Model ----
(***************************************************************************)
(* Model of genmon-ha-discovery.py: the GenmonHADiscovery bridge that      *)
(* turns GenMon MQTT messages into Home Assistant discovery descriptors.   *)
(*                                                                         *)
(* Python strings that the code inspects character by character (topics,   *)
(* payloads, identifiers) are sequences of one-character strings.  Fixed   *)
(* literals the code never inspects (value templates, key names, entity    *)
(* kinds) are TLA+ strings.                                                *)
(***************************************************************************)
EXTENDS Integers, Sequences, FiniteSets, TLC

(***************************************************************************)
(* Python str primitives used by the source                                *)
(***************************************************************************)
LowerAlpha ==
    <<"a", "b", "c", "d", "e", "f", "g", "h", "i", "j", "k", "l", "m",
      "n", "o", "p", "q", "r", "s", "t", "u", "v", "w", "x", "y", "z">>

UpperAlpha ==
    <<"A", "B", "C", "D", "E", "F", "G", "H", "I", "J", "K", "L", "M",
      "N", "O", "P", "Q", "R", "S", "T", "U", "V", "W", "X", "Y", "Z">>

IsLower(c) == \E i \in DOMAIN LowerAlpha : LowerAlpha[i] = c

IsUpper(c) == \E i \in DOMAIN UpperAlpha : UpperAlpha[i] = c

IsAlpha(c) == IsLower(c) \/ IsUpper(c)

IsDigit(c) == c \in {"0", "1", "2", "3", "4", "5", "6", "7", "8", "9"}

\* str.strip(), str.split() and the regex class \s: the whitespace characters
IsSpace(c) == c \in {" ", "\n", "\t"}

upper_char(c) ==
    IF IsLower(c)
    THEN UpperAlpha[CHOOSE i \in DOMAIN LowerAlpha : LowerAlpha[i] = c]
    ELSE c

lower_char(c) ==
    IF IsUpper(c)
    THEN LowerAlpha[CHOOSE i \in DOMAIN UpperAlpha : UpperAlpha[i] = c]
    ELSE c

\* str.lower()
lower(s) == [i \in 1..Len(s) |-> lower_char(s[i])]

\* str.capitalize(): first character upper-cased, all the others lower-cased
capitalize(s) ==
    [i \in 1..Len(s) |-> IF i = 1 THEN upper_char(s[i]) ELSE lower_char(s[i])]

\* str.split(sep) for a one-character separator: empty fields are kept
RECURSIVE split(_, _)
split(s, sep) ==
    IF \A i \in 1..Len(s) : s[i] # sep
    THEN <<s>>
    ELSE LET k == CHOOSE i \in 1..Len(s) :
                      s[i] = sep /\ \A j \in 1..(i - 1) : s[j] # sep
         IN  <<SubSeq(s, 1, k - 1)>> \o split(SubSeq(s, k + 1, Len(s)), sep)

\* str.split() without argument: runs of whitespace separate, no empty fields
RECURSIVE split_ws(_)
split_ws(s) ==
    IF s = <<>> THEN <<>>
    ELSE IF IsSpace(s[1]) THEN split_ws(Tail(s))
    ELSE LET stops == {i \in 1..Len(s) : IsSpace(s[i])}
             n == IF stops = {} THEN Len(s) + 1
                  ELSE CHOOSE i \in stops : \A j \in stops : i <= j
         IN  <<SubSeq(s, 1, n - 1)>> \o split_ws(SubSeq(s, n, Len(s)))

\* sep.join(parts)
RECURSIVE join(_, _)
join(parts, sep) ==
    IF parts = <<>> THEN <<>>
    ELSE IF Len(parts) = 1 THEN parts[1]
    ELSE parts[1] \o sep \o join(Tail(parts), sep)

\* str.replace(a, b) for one-character a and b
replace_char(s, a, b) == [i \in 1..Len(s) |-> IF s[i] = a THEN b ELSE s[i]]

\* str.replace(a, '') for a one-character a
remove_char(s, a) == SelectSeq(s, LAMBDA c : c # a)

\* the Python test  sub in s
contains(s, sub) ==
    \E i \in 0..(Len(s) - Len(sub)) : SubSeq(s, i + 1, i + Len(sub)) = sub

\* str.startswith(p)
startswith(s, p) == Len(s) >= Len(p) /\ SubSeq(s, 1, Len(p)) = p

\* str.strip()
strip(s) ==
    LET keep == {i \in 1..Len(s) : ~IsSpace(s[i])}
    IN  IF keep = {} THEN <<>>
        ELSE SubSeq(s, CHOOSE i \in keep : \A j \in keep : i <= j,
                       CHOOSE i \in keep : \A j \in keep : i >= j)

\* capitalize every element of a list of words
capitalize_all(words) == [i \in 1..Len(words) |-> capitalize(words[i])]

(***************************************************************************)
(* Optional values: Python None or a value                                 *)
(***************************************************************************)
None == [some |-> FALSE, type |-> "none", val |-> <<>>]

Str(v) == [some |-> TRUE, type |-> "str", val |-> v]

Num(v) == [some |-> TRUE, type |-> "num", val |-> v]

\* the number a JSON number text denotes is zero: only digits 0, '-' and '.'
IsZeroText(v) == \A i \in 1..Len(v) : v[i] \in {"0", "-", "."}

\* Python truthiness of an optional str or JSON number (if x: ...)
truthy(o) ==
    /\ o.some
    /\ IF o.type = "num" THEN ~IsZeroText(o.val) ELSE o.val # <<>>

S_None ==
    <<"N", "o", "n", "e">>

\* f"{x}" for an optional str: None is rendered as the text None
fstr(o) == IF o.some THEN o.val ELSE S_None

(***************************************************************************)
(* json.loads, restricted to the documents the payloads of the model can   *)
(* be: an object whose keys are strings and whose values are strings       *)
(* (without escapes) or numbers (without exponent).  Every other text is   *)
(* either not JSON (JSONDecodeError, caught at line 149) or JSON that is   *)
(* not a dict (isinstance fails at line 145); both fall through.           *)
(***************************************************************************)
RECURSIVE skip_ws(_, _)
skip_ws(s, i) ==
    IF i <= Len(s) /\ IsSpace(s[i]) THEN skip_ws(s, i + 1) ELSE i

JsonFail == [ok |-> FALSE, val |-> None, next |-> 0]

\* a JSON string starting at position i
json_string(s, i) ==
    IF i > Len(s) \/ s[i] # "\"" THEN JsonFail
    ELSE LET closing == {j \in (i + 1)..Len(s) : s[j] = "\""}
         IN  IF closing = {} THEN JsonFail
             ELSE LET j == CHOOSE x \in closing : \A y \in closing : x <= y
                  IN  IF \E k \in (i + 1)..(j - 1) : s[k] = "\n" THEN JsonFail
                      ELSE [ok |-> TRUE, val |-> Str(SubSeq(s, i + 1, j - 1)),
                            next |-> j + 1]

RECURSIVE digits_end(_, _)
\* the position after the run of digits that starts at i
digits_end(s, i) ==
    IF i <= Len(s) /\ IsDigit(s[i]) THEN digits_end(s, i + 1) ELSE i

\* a JSON number starting at position i: -? int frac?
json_number(s, i) ==
    LET i1 == IF i <= Len(s) /\ s[i] = "-" THEN i + 1 ELSE i
        i2 == digits_end(s, i1)
        intOk == i2 > i1 /\ (s[i1] = "0" => i2 = i1 + 1)
        hasFrac == i2 <= Len(s) /\ s[i2] = "." /\ digits_end(s, i2 + 1) > i2 + 1
        i3 == IF hasFrac THEN digits_end(s, i2 + 1) ELSE i2
    IN  IF ~intOk THEN JsonFail
        ELSE [ok |-> TRUE, val |-> Num(SubSeq(s, i, i3 - 1)), next |-> i3]

json_value(s, i) ==
    IF i <= Len(s) /\ s[i] = "\"" THEN json_string(s, i) ELSE json_number(s, i)

\* members of an object from position i on; acc is the list of <<key, value>>
RECURSIVE json_members(_, _, _)
json_members(s, i, acc) ==
    LET k == json_string(s, skip_ws(s, i))
        c == skip_ws(s, k.next)
        v == json_value(s, skip_ws(s, c + 1))
        e == skip_ws(s, v.next)
    IN  IF ~k.ok \/ c > Len(s) \/ s[c] # ":" \/ ~v.ok \/ e > Len(s)
        THEN [ok |-> FALSE, items |-> <<>>]
        ELSE IF s[e] = ","
        THEN json_members(s, e + 1, Append(acc, <<k.val.val, v.val>>))
        ELSE IF s[e] = "}" /\ skip_ws(s, e + 1) = Len(s) + 1
        THEN [ok |-> TRUE, items |-> Append(acc, <<k.val.val, v.val>>)]
        ELSE [ok |-> FALSE, items |-> <<>>]

\* json.loads(payload) when the result is a dict: ok and the items in order
json_loads(payload) ==
    LET o == skip_ws(payload, 1)
        m == skip_ws(payload, o + 1)
    IN  IF o > Len(payload) \/ payload[o] # "{"
        THEN [ok |-> FALSE, items |-> <<>>]
        ELSE IF m <= Len(payload) /\ payload[m] = "}"
                 /\ skip_ws(payload, m + 1) = Len(payload) + 1
        THEN [ok |-> TRUE, items |-> <<>>]
        ELSE json_members(payload, o + 1, <<>>)

\* key in data
dict_has(items, key) == \E i \in 1..Len(items) : items[i][1] = key

\* data.get(key, None): with a repeated key the last one wins
dict_get(items, key) ==
    IF dict_has(items, key)
    THEN items[CHOOSE i \in 1..Len(items) :
                   /\ items[i][1] = key
                   /\ \A j \in (i + 1)..Len(items) : items[j][1] # key][2]
    ELSE None

S_value ==
    <<"v", "a", "l", "u", "e">>

S_unit ==
    <<"u", "n", "i", "t">>

(***************************************************************************)
(* The regular expressions of _get_value_template_and_unit.  re.match      *)
(* anchors at the start of the payload, '.' matches every character but    *)
(* the newline, \s matches whitespace, $ matches at the end of the payload *)
(* and before a newline that ends it.                                      *)
(***************************************************************************)
AllDigits(s, i, j) == i >= 1 /\ j <= Len(s) /\ \A k \in i..j : IsDigit(s[k])

AllSpace(s, i, j) == \A k \in i..j : IsSpace(s[k])

\* the characters i..j can be matched by .*? (none of them is a newline)
AllDot(s, i, j) == \A k \in i..j : s[k] # "\n"

\* (\d{1,2}/\d{1,2}/\d{4}) matches starting at position p
date_at(s, p) ==
    \E a \in {1, 2} : \E b \in {1, 2} :
        /\ p + a + b + 5 <= Len(s)
        /\ AllDigits(s, p, p + a - 1)
        /\ s[p + a] = "/"
        /\ AllDigits(s, p + a + 1, p + a + b)
        /\ s[p + a + b + 1] = "/"
        /\ AllDigits(s, p + a + b + 2, p + a + b + 5)

\* re.match(r".*?(\d{1,2}/\d{1,2}/\d{4})", payload) is not None
date_match(payload) ==
    \E p \in 1..Len(payload) : AllDot(payload, 1, p - 1) /\ date_at(payload, p)

\* (\d+\.?\d*) matches exactly the characters i..j
number_at(s, i, j) ==
    /\ i <= j
    /\ \E d \in i..j :
          /\ AllDigits(s, i, d)
          /\ \/ d = j
             \/ s[d + 1] = "." /\ AllDigits(s, d + 2, j)

IsUnitChar(c) == IsAlpha(c) \/ c = "%"

\* the positions at which $ matches
dollar_positions(s) ==
    {Len(s)} \cup (IF Len(s) > 0 /\ s[Len(s)] = "\n" THEN {Len(s) - 1} ELSE {})

\* r".*?\s*(\d+\.?\d*)\s*([a-zA-Z%]+)$" matches with group 2 = s[u+1..f]
value_unit_at(s, u, f) ==
    /\ f \in dollar_positions(s)
    /\ u < f
    /\ \A k \in (u + 1)..f : IsUnitChar(s[k])
    /\ \E c \in 1..u :
          /\ AllSpace(s, c + 1, u)
          /\ \E b \in 0..(c - 1) :
                /\ number_at(s, b + 1, c)
                /\ \E a \in 0..b : AllDot(s, 1, a) /\ AllSpace(s, a + 1, b)

\* re.match(r".*?\s*(\d+\.?\d*)\s*([a-zA-Z%]+)$", payload): whether it
\* matches and group(2).  The character before group 2 is a digit, a dot or
\* whitespace, so group 2 is the same in every way the pattern can match.
value_unit_match(payload) ==
    LET hits == {x \in (0..Len(payload)) \X dollar_positions(payload) :
                     value_unit_at(payload, x[1], x[2])}
    IN  IF hits = {} THEN [matched |-> FALSE, unit |-> <<>>]
        ELSE LET x == CHOOSE y \in hits : TRUE
             IN  [matched |-> TRUE, unit |-> SubSeq(payload, x[1] + 1, x[2])]

S_colon_space ==
    <<":", " ">>

(***************************************************************************)
(* The value templates: Jinja2 texts handed to Home Assistant unchanged    *)
(***************************************************************************)
TemplateJson == "{{ value_json.value }}"

TemplateDate == "{% set date_match = value | regex_findall(...) %} ... {{ date_parts[2] ~ '-' ~ month ~ '-' ~ day }}"

TemplateValueUnit == "{{ value | regex_findall('.*?(\\d+\\.?\\d*)\\s*[a-zA-Z%]+$') | first }}"

TemplateColon == "{{ value.split(': ')[1] if ': ' in value and value.split(': ') | length > 1 else value }}"

TemplateRaw == "{{ value }}"

TemplateBinary == "{{ 'ON' if value in ['Yes', 'ON', 'Online', 'True', 'true', '1'] else 'OFF' }}"

\* _get_value_template_and_unit(payload): the (value_template, unit) pair
get_value_template_and_unit(payload) ==
    LET data == json_loads(payload)
        value_unit == value_unit_match(payload)
    IN  IF data.ok /\ dict_has(data.items, S_value)
        THEN [template |-> TemplateJson, unit |-> dict_get(data.items, S_unit)]
        ELSE IF date_match(payload)
        THEN [template |-> TemplateDate, unit |-> None]
        ELSE IF value_unit.matched
        THEN [template |-> TemplateValueUnit, unit |-> Str(value_unit.unit)]
        ELSE IF contains(payload, S_colon_space)
        THEN [template |-> TemplateColon, unit |-> None]
        ELSE [template |-> TemplateRaw, unit |-> None]

(***************************************************************************)
(* String literals of the source                                           *)
(***************************************************************************)
S_Undefined ==
    <<"U", "n", "d", "e", "f", "i", "n", "e", "d">>

S_generator ==
    <<"g", "e", "n", "e", "r", "a", "t", "o", "r">>

S_genmon_generator ==
    <<"g", "e", "n", "m", "o", "n", "_", "g", "e", "n", "e", "r", "a", "t", "o", "r">>

S_Generator ==
    <<"G", "e", "n", "e", "r", "a", "t", "o", "r">>

S_Genmon_Generator ==
    <<"G", "e", "n", "m", "o", "n", "_", "G", "e", "n", "e", "r", "a", "t", "o", "r">>

S_Generator_Monitor ==
    <<"G", "e", "n", "e", "r", "a", "t", "o", "r", " ", "M", "o", "n", "i", "t", "o", "r">>

S_homeassistant ==
    <<"h", "o", "m", "e", "a", "s", "s", "i", "s", "t", "a", "n", "t">>

S_generator_topic ==
    <<"g", "e", "n", "e", "r", "a", "t", "o", "r", "/", "#">>

S_sensor ==
    <<"s", "e", "n", "s", "o", "r">>

S_binary_sensor ==
    <<"b", "i", "n", "a", "r", "y", "_", "s", "e", "n", "s", "o", "r">>

S_switch ==
    <<"s", "w", "i", "t", "c", "h">>

S_button ==
    <<"b", "u", "t", "t", "o", "n">>

S_state ==
    <<"s", "t", "a", "t", "e">>

S_switch_state ==
    <<"s", "w", "i", "t", "c", "h", "_", "s", "t", "a", "t", "e">>

S_command ==
    <<"c", "o", "m", "m", "a", "n", "d">>

S_Controller_Detected ==
    <<"C", "o", "n", "t", "r", "o", "l", "l", "e", "r", "_", "D", "e", "t", "e", "c", "t", "e", "d">>

S_Generator_Serial_Number ==
    <<"G", "e", "n", "e", "r", "a", "t", "o", "r", "_", "S", "e", "r", "i", "a", "l", "_", "N", "u", "m", "b", "e", "r">>

S_Firmware_Version ==
    <<"F", "i", "r", "m", "w", "a", "r", "e", "_", "V", "e", "r", "s", "i", "o", "n">>

S_config ==
    <<"c", "o", "n", "f", "i", "g">>

S_set ==
    <<"s", "e", "t">>

S_due ==
    <<"d", "u", "e">>

S_next ==
    <<"n", "e", "x", "t">>

S_date ==
    <<"d", "a", "t", "e">>

S_kWh ==
    <<"k", "W", "h">>

S_h ==
    <<"h">>

S_runtime ==
    <<"r", "u", "n", "t", "i", "m", "e">>

S_run_hours ==
    <<"r", "u", "n", "_", "h", "o", "u", "r", "s">>

S_run_hours_sp ==
    <<"r", "u", "n", " ", "h", "o", "u", "r", "s">>

S_total_run_hours ==
    <<"t", "o", "t", "a", "l", "_", "r", "u", "n", "_", "h", "o", "u", "r", "s">>

S_command_infix ==
    <<"_", "c", "o", "m", "m", "a", "n", "d", "_">>

S_Command_infix ==
    <<"_", "C", "o", "m", "m", "a", "n", "d", "_">>

\* the boolean tokens of line 200
BoolTokens ==
    {<<"Y", "e", "s">>,
     <<"N", "o">>,
     <<"O", "n", "l", "i", "n", "e">>,
     <<"O", "f", "f", "l", "i", "n", "e">>,
     <<"T", "r", "u", "e">>,
     <<"F", "a", "l", "s", "e">>,
     <<"O", "N">>,
     <<"O", "F", "F">>}

(***************************************************************************)
(* The locals of _process_genmon_message, as functions of its arguments    *)
(* and of the configuration fields they read                               *)
(***************************************************************************)
\* parts = topic.split('/')
topic_parts(topic) == split(topic, "/")

\* category = parts[1]
category_of(topic) == topic_parts(topic)[2]

\* entity_name = '_'.join(parts[2:])
entity_name_of(topic) ==
    LET parts == topic_parts(topic)
    IN  join(SubSeq(parts, 3, Len(parts)), <<"_">>)

\* lines 197-205 with the checks on the entity name ahead of the token check
entity_type_of_name_first(entity_name, payload) ==
    IF entity_name \in {S_state, S_switch_state} THEN S_binary_sensor
    ELSE IF entity_name \in {S_command} THEN S_switch
    ELSE IF strip(payload) \in BoolTokens THEN S_binary_sensor
    ELSE S_sensor

\* lines 197-205 with the payload compared as it is, not stripped
entity_type_of_untrimmed(entity_name, payload) ==
    IF payload \in BoolTokens THEN S_binary_sensor
    ELSE IF entity_name \in {S_state, S_switch_state} THEN S_binary_sensor
    ELSE IF entity_name \in {S_command} THEN S_switch
    ELSE S_sensor

\* the entity_type chosen at lines 197-205
entity_type_of(entity_name, payload) ==
    IF strip(payload) \in BoolTokens THEN S_binary_sensor
    ELSE IF entity_name \in {S_state, S_switch_state} THEN S_binary_sensor
    ELSE IF entity_name \in {S_command} THEN S_switch
    ELSE S_sensor

\* device_id = self.ha_device_id if self.ha_device_id else "genmon_generator"
device_id_of(dev_id) == IF truthy(dev_id) THEN dev_id.val ELSE S_genmon_generator

\* formatted_name of lines 211-213
formatted_name_of(entity_name) ==
    LET words == split_ws(replace_char(entity_name, "_", " "))
        joined == join(capitalize_all(words), <<"_">>)
    IN  remove_char(remove_char(remove_char(remove_char(joined, "("), ")"), "["), "]")

\* unique_id = f"{device_id}_{category.capitalize()}_{formatted_name}"
unique_id_of(dev_id, topic) ==
    device_id_of(dev_id) \o <<"_">> \o capitalize(category_of(topic))
        \o <<"_">> \o formatted_name_of(entity_name_of(topic))

\* device_name_prefix of lines 216-217 and 353-354
device_name_prefix_of(dev_name) ==
    replace_char(IF truthy(dev_name) THEN dev_name.val ELSE S_Generator, " ", "_")

\* object_id = f"{device_name_prefix}_{category.capitalize()}_{formatted_name}"
object_id_of(dev_name, topic) ==
    device_name_prefix_of(dev_name) \o <<"_">> \o capitalize(category_of(topic))
        \o <<"_">> \o formatted_name_of(entity_name_of(topic))

\* topic_prefix of lines 119-123 and 319-323
topic_prefix_of(genmon_topic) ==
    IF truthy(genmon_topic) THEN split(genmon_topic.val, "/")[1] ELSE S_generator

\* the test of line 189 with the bound off by one
too_short_below_two(parts) == Len(parts) < 2

\* the test of line 189: the topic has too few segments to name an entity
too_short(parts) == Len(parts) < 3

\* lines 221-228 with a return after the Firmware_Version assignment too
device_field_of_firmware_absorbed(formatted_name) ==
    IF contains(formatted_name, S_Controller_Detected)
    THEN [field |-> "model", absorbed |-> TRUE]
    ELSE IF contains(formatted_name, S_Generator_Serial_Number)
    THEN [field |-> "serial_number", absorbed |-> TRUE]
    ELSE IF contains(formatted_name, S_Firmware_Version)
    THEN [field |-> "sw_version", absorbed |-> TRUE]
    ELSE [field |-> "none", absorbed |-> FALSE]

\* lines 221-228 with the serial-number branch assigning the model field
device_field_of_serial_sets_model(formatted_name) ==
    IF contains(formatted_name, S_Controller_Detected)
    THEN [field |-> "model", absorbed |-> TRUE]
    ELSE IF contains(formatted_name, S_Generator_Serial_Number)
    THEN [field |-> "model", absorbed |-> TRUE]
    ELSE IF contains(formatted_name, S_Firmware_Version)
    THEN [field |-> "sw_version", absorbed |-> FALSE]
    ELSE [field |-> "none", absorbed |-> FALSE]

\* which device field the signal sets (lines 221-228), and whether the
\* message is absorbed (the return statements of lines 223 and 226)
device_field_of(formatted_name) ==
    IF contains(formatted_name, S_Controller_Detected)
    THEN [field |-> "model", absorbed |-> TRUE]
    ELSE IF contains(formatted_name, S_Generator_Serial_Number)
    THEN [field |-> "serial_number", absorbed |-> TRUE]
    ELSE IF contains(formatted_name, S_Firmware_Version)
    THEN [field |-> "sw_version", absorbed |-> FALSE]
    ELSE [field |-> "none", absorbed |-> FALSE]

\* the membership test of line 251 left out
not_registered_unchecked(unique_id, registered) == TRUE

\* the test of line 251
not_registered(unique_id, registered) == unique_id \notin registered

\* line 254 left out
add_registered_forgotten(unique_id, registered) == registered

\* line 254
add_registered(unique_id, registered) == registered \cup {unique_id}

\* any(x in entity_name.lower() for x in names)
name_has_any(entity_name, names) ==
    \E x \in names : contains(lower(entity_name), x)

(***************************************************************************)
(* Discovery descriptors.  A descriptor is the dict that json.dumps        *)
(* serialises: a record whose fields are the keys of the dict.             *)
(***************************************************************************)
EmptyDict == [k \in {} |-> TRUE]

\* origin_info of lines 241-245 and 342-346 (ha_origin at its default)
origin_info_of ==
    [name |-> "Generator Monitor", sw_version |-> "Undefined",
     support_url |-> "https://github.com/jgyates/genmon"]

\* device_info with the firmware version of construction time
device_info_of_stale_version(identifier, dev_name, model, serial_number, sw_version) ==
    [identifiers |-> <<identifier>>, name |-> dev_name, manufacturer |-> "GenMon",
     model |-> model, serial_number |-> serial_number, sw_version |-> Str(S_Undefined)]

\* device_info of lines 231-238 and 333-340
device_info_of(identifier, dev_name, model, serial_number, sw_version) ==
    [identifiers |-> <<identifier>>, name |-> dev_name, manufacturer |-> "GenMon",
     model |-> model, serial_number |-> serial_number, sw_version |-> sw_version]

\* the display name of line 265
display_name_of(category, entity_name) ==
    join(capitalize_all(split_ws(category \o <<" ">> \o replace_char(entity_name, "_", " "))),
         <<" ">>)

\* the unit checks before the check of the name
sensor_class_of_unit_first(entity_name, unit) ==
    IF unit = Str(S_kWh)
    THEN [device_class |-> "energy", state_class |-> "total_increasing"]
    ELSE IF unit = Str(S_h)
            \/ (name_has_any(entity_name,
                             {S_runtime, S_run_hours, S_run_hours_sp, S_total_run_hours})
                /\ unit = None)
    THEN [device_class |-> "duration", state_class |-> "total_increasing"]
    ELSE IF name_has_any(entity_name, {S_due, S_next, S_date})
    THEN [device_class |-> "date"]
    ELSE EmptyDict

\* the device_class / state_class keys a sensor gets at lines 290-305
sensor_class_of(entity_name, unit) ==
    IF name_has_any(entity_name, {S_due, S_next, S_date})
    THEN [device_class |-> "date"]
    ELSE IF unit = Str(S_kWh)
    THEN [device_class |-> "energy", state_class |-> "total_increasing"]
    ELSE IF unit = Str(S_h)
            \/ (name_has_any(entity_name,
                             {S_runtime, S_run_hours, S_run_hours_sp, S_total_run_hours})
                /\ unit = None)
    THEN [device_class |-> "duration", state_class |-> "total_increasing"]
    ELSE EmptyDict

\* the config dict in which a binary_sensor keeps the template of the classifier
entity_config_of_classifier_template(entity_type, category, entity_name, unique_id, object_id, device_info, origin_info, state_topic, value_template, unit, disc_prefix, dev_id) ==
    LET base == [name |-> display_name_of(category, entity_name),
                 unique_id |-> unique_id,
                 state_topic |-> state_topic,
                 value_template |-> value_template,
                 device |-> device_info,
                 origin |-> origin_info,
                 default_entity_id |-> entity_type \o <<".">> \o object_id]
    IN  IF entity_type = S_binary_sensor
        THEN [payload_on |-> "ON", payload_off |-> "OFF"] @@ base
        ELSE IF entity_type = S_switch
        THEN [command_topic |-> fstr(disc_prefix) \o <<"/">> \o entity_type \o <<"/">>
                                   \o fstr(dev_id) \o <<"/">> \o unique_id
                                   \o <<"/">> \o S_set,
              payload_on |-> "ON", payload_off |-> "OFF"] @@ base
        ELSE IF entity_type = S_sensor
        THEN (IF truthy(unit) THEN [unit_of_measurement |-> unit] ELSE EmptyDict)
                 @@ sensor_class_of(entity_name, unit) @@ base
        ELSE base

\* the config dict in which every kind gets the unit
entity_config_of_unit_for_all(entity_type, category, entity_name, unique_id, object_id, device_info, origin_info, state_topic, value_template, unit, disc_prefix, dev_id) ==
    LET base == [name |-> display_name_of(category, entity_name),
                 unique_id |-> unique_id,
                 state_topic |-> state_topic,
                 value_template |-> value_template,
                 device |-> device_info,
                 origin |-> origin_info,
                 default_entity_id |-> entity_type \o <<".">> \o object_id]
        with_unit == IF truthy(unit) THEN [unit_of_measurement |-> unit] ELSE EmptyDict
    IN  IF entity_type = S_binary_sensor
        THEN with_unit @@ [value_template |-> TemplateBinary, payload_on |-> "ON",
                           payload_off |-> "OFF"] @@ base
        ELSE IF entity_type = S_switch
        THEN with_unit @@
             [command_topic |-> fstr(disc_prefix) \o <<"/">> \o entity_type \o <<"/">>
                                   \o fstr(dev_id) \o <<"/">> \o unique_id
                                   \o <<"/">> \o S_set,
              payload_on |-> "ON", payload_off |-> "OFF"] @@ base
        ELSE IF entity_type = S_sensor
        THEN with_unit @@ sensor_class_of(entity_name, unit) @@ base
        ELSE base

\* the config dict built by _register_ha_entity (lines 264-309)
entity_config_of(entity_type, category, entity_name, unique_id, object_id, device_info, origin_info, state_topic, value_template, unit, disc_prefix, dev_id) ==
    LET base == [name |-> display_name_of(category, entity_name),
                 unique_id |-> unique_id,
                 state_topic |-> state_topic,
                 value_template |-> value_template,
                 device |-> device_info,
                 origin |-> origin_info,
                 default_entity_id |-> entity_type \o <<".">> \o object_id]
    IN  IF entity_type = S_binary_sensor
        THEN [value_template |-> TemplateBinary, payload_on |-> "ON",
              payload_off |-> "OFF"] @@ base
        ELSE IF entity_type = S_switch
        THEN [command_topic |-> fstr(disc_prefix) \o <<"/">> \o entity_type \o <<"/">>
                                   \o fstr(dev_id) \o <<"/">> \o unique_id
                                   \o <<"/">> \o S_set,
              payload_on |-> "ON", payload_off |-> "OFF"] @@ base
        ELSE IF entity_type = S_sensor
        THEN (IF truthy(unit) THEN [unit_of_measurement |-> unit] ELSE EmptyDict)
                 @@ sensor_class_of(entity_name, unit) @@ base
        ELSE base

\* the publish call of lines 311-313: topic, serialised config, retain flag
entity_publish_of(entity_type, category, entity_name, unique_id, object_id, device_info, origin_info, state_topic, value_template, unit, disc_prefix, dev_id) ==
    [topic |-> fstr(disc_prefix) \o <<"/">> \o entity_type \o <<"/">> \o fstr(dev_id)
                   \o <<"/">> \o unique_id \o <<"/">> \o S_config,
     payload |-> entity_config_of(entity_type, category, entity_name, unique_id,
                                  object_id, device_info, origin_info, state_topic,
                                  value_template, unit, disc_prefix, dev_id),
     retain |-> TRUE]

\* the list without its last entry
commands_without_transfer ==
    <<<<<<"S", "t", "a", "r", "t", " ", "G", "e", "n", "e", "r", "a", "t", "o", "r">>,
        <<"s", "e", "t", "r", "e", "m", "o", "t", "e", "=", "s", "t", "a", "r", "t">>>>,
      <<<<"S", "t", "o", "p", " ", "G", "e", "n", "e", "r", "a", "t", "o", "r">>,
        <<"s", "e", "t", "r", "e", "m", "o", "t", "e", "=", "s", "t", "o", "p">>>>>>

\* the commands list of lines 327-331: <<command_name, genmon_command>>
commands ==
    <<<<<<"S", "t", "a", "r", "t", " ", "G", "e", "n", "e", "r", "a", "t", "o", "r">>,
        <<"s", "e", "t", "r", "e", "m", "o", "t", "e", "=", "s", "t", "a", "r", "t">>>>,
      <<<<"S", "t", "o", "p", " ", "G", "e", "n", "e", "r", "a", "t", "o", "r">>,
        <<"s", "e", "t", "r", "e", "m", "o", "t", "e", "=", "s", "t", "o", "p">>>>,
      <<<<"S", "t", "a", "r", "t", " ", "a", "n", "d", " ", "T", "r", "a", "n", "s", "f", "e", "r", " ", "S", "w", "i", "t", "c", "h">>,
        <<"s", "e", "t", "r", "e", "m", "o", "t", "e", "=", "s", "t", "a", "r", "t", "t", "r", "a", "n", "s", "f", "e", "r">>>>>>

\* the publish call for one command button (lines 348-368)
button_publish_of(command, dev_id, dev_name, genmon_topic, disc_prefix, device_info, origin_info) ==
    LET command_name == command[1]
        genmon_command == command[2]
        command_id == replace_char(lower(command_name), " ", "_")
        unique_id == fstr(dev_id) \o S_command_infix \o command_id
        entity_id == device_name_prefix_of(dev_name) \o S_Command_infix
                         \o replace_char(command_name, " ", "_")
    IN  [topic |-> fstr(disc_prefix) \o <<"/">> \o S_button \o <<"/">> \o fstr(dev_id)
                       \o <<"/">> \o unique_id \o <<"/">> \o S_config,
         payload |-> [name |-> command_name,
                      unique_id |-> unique_id,
                      command_topic |-> topic_prefix_of(genmon_topic) \o <<"/">> \o S_command,
                      payload_press |-> genmon_command,
                      device |-> device_info,
                      origin |-> origin_info,
                      default_entity_id |-> S_button \o <<".">> \o entity_id],
         retain |-> TRUE]

(***************************************************************************)
(* Inputs: the topics and payloads the broker delivers                     *)
(***************************************************************************)
T_battery ==
    <<"g", "e", "n", "e", "r", "a", "t", "o", "r", "/", "S", "t", "a", "t", "u", "s", "/", "B", "a", "t", "t", "e", "r", "y", " ", "V", "o", "l", "t", "a", "g", "e">>

T_battery_split ==
    <<"g", "e", "n", "e", "r", "a", "t", "o", "r", "/", "S", "t", "a", "t", "u", "s", "/", "B", "a", "t", "t", "e", "r", "y", "/", "V", "o", "l", "t", "a", "g", "e">>

T_controller ==
    <<"g", "e", "n", "e", "r", "a", "t", "o", "r", "/", "M", "a", "i", "n", "t", "e", "n", "a", "n", "c", "e", "/", "C", "o", "n", "t", "r", "o", "l", "l", "e", "r", " ", "D", "e", "t", "e", "c", "t", "e", "d">>

T_xcontroller ==
    <<"g", "e", "n", "e", "r", "a", "t", "o", "r", "/", "s", "t", "a", "t", "u", "s", "/", "x", "c", "o", "n", "t", "r", "o", "l", "l", "e", "r", "_", "d", "e", "t", "e", "c", "t", "e", "d">>

T_serial ==
    <<"g", "e", "n", "e", "r", "a", "t", "o", "r", "/", "M", "a", "i", "n", "t", "e", "n", "a", "n", "c", "e", "/", "G", "e", "n", "e", "r", "a", "t", "o", "r", " ", "S", "e", "r", "i", "a", "l", " ", "N", "u", "m", "b", "e", "r">>

T_firmware ==
    <<"g", "e", "n", "e", "r", "a", "t", "o", "r", "/", "M", "a", "i", "n", "t", "e", "n", "a", "n", "c", "e", "/", "F", "i", "r", "m", "w", "a", "r", "e", " ", "V", "e", "r", "s", "i", "o", "n">>

T_controller_firmware ==
    <<"g", "e", "n", "e", "r", "a", "t", "o", "r", "/", "s", "t", "a", "t", "u", "s", "/", "c", "o", "n", "t", "r", "o", "l", "l", "e", "r", "_", "d", "e", "t", "e", "c", "t", "e", "d", "/", "f", "i", "r", "m", "w", "a", "r", "e", "_", "v", "e", "r", "s", "i", "o", "n">>

T_short ==
    <<"g", "e", "n", "e", "r", "a", "t", "o", "r", "/", "f", "i", "r", "m", "w", "a", "r", "e", "_", "v", "e", "r", "s", "i", "o", "n">>

T_command ==
    <<"g", "e", "n", "e", "r", "a", "t", "o", "r", "/", "s", "t", "a", "t", "u", "s", "/", "c", "o", "m", "m", "a", "n", "d">>

T_foreign ==
    <<"o", "t", "h", "e", "r", "/", "s", "t", "a", "t", "u", "s", "/", "b", "a", "t", "t", "e", "r", "y">>

Topics ==
    {T_battery, T_battery_split, T_controller, T_xcontroller, T_serial,
     T_firmware, T_controller_firmware, T_short, T_command, T_foreign}

P_Yes ==
    <<"Y", "e", "s">>

P_volts ==
    <<"2", "5", ".", "5", " ", "V">>

P_Evolution ==
    <<"E", "v", "o", "l", "u", "t", "i", "o", "n">>

P_OFF_padded ==
    <<" ", "O", "F", "F", "\n">>

Payloads ==
    {P_Yes, P_volts, P_Evolution, P_OFF_padded}

\* the (topic, payload) messages delivered to on_message
Messages ==
    {<<T_battery, P_Yes>>,
     <<T_battery, P_volts>>,
     <<T_battery, P_OFF_padded>>,
     <<T_battery_split, P_Evolution>>,
     <<T_controller, P_Evolution>>,
     <<T_xcontroller, P_Evolution>>,
     <<T_serial, P_volts>>,
     <<T_firmware, P_Evolution>>,
     <<T_firmware, P_volts>>,
     <<T_controller_firmware, P_Evolution>>,
     <<T_short, P_Yes>>,
     <<T_command, P_volts>>,
     <<T_foreign, P_volts>>}

\* result codes of a connection attempt: 0 is success
ResultCodes == {0, 5}

S_My_Gen ==
    <<"M", "y", " ", "G", "e", "n">>

\* constructor arguments: the defaults of lines 22-33, and a configuration
\* whose device id and genmon topic are missing (None) and which has its own
\* device name and device model
Configs ==
    {[ha_device_id |-> Str(S_Genmon_Generator), ha_device_name |-> Str(S_Generator),
      ha_device_model |-> Str(S_Generator_Monitor),
      mqtt_genmon_topic |-> Str(S_generator_topic),
      mqtt_discovery_prefix |-> Str(S_homeassistant)],
     [ha_device_id |-> None, ha_device_name |-> Str(S_My_Gen),
      ha_device_model |-> Str(P_Evolution),
      mqtt_genmon_topic |-> None,
      mqtt_discovery_prefix |-> Str(S_homeassistant)]}

(***************************************************************************)
(* The values of the helpers on the inputs of the model.  The helpers are  *)
(* pure, so each value is computed once and looked up by the callbacks.    *)
(***************************************************************************)
AllTopics == Topics

AllPayloads == Payloads

DeviceIds == {c.ha_device_id : c \in Configs}

DeviceNames == {c.ha_device_name : c \in Configs}

DiscoveryPrefixes == {c.mqtt_discovery_prefix : c \in Configs}

\* lines 188-213 per topic
topic_locals ==
    [t \in AllTopics |->
        LET short == too_short(topic_parts(t))
        IN  [short |-> short,
             entity_name |-> IF short THEN <<>> ELSE entity_name_of(t),
             formatted_name |-> IF short THEN <<>>
                                ELSE formatted_name_of(entity_name_of(t)),
             device_field |-> IF short THEN [field |-> "none", absorbed |-> FALSE]
                              ELSE device_field_of(formatted_name_of(entity_name_of(t)))]]

\* lines 197-205 per topic and payload
entity_type_locals ==
    [t \in AllTopics |-> [p \in AllPayloads |->
        IF too_short(topic_parts(t)) THEN <<>> ELSE entity_type_of(entity_name_of(t), p)]]

\* line 214 per configured device id and topic
unique_id_locals ==
    [d \in DeviceIds |-> [t \in AllTopics |->
        IF too_short(topic_parts(t)) THEN <<>> ELSE unique_id_of(d, t)]]

\* line 248 per payload
template_unit_locals == [p \in AllPayloads |-> get_value_template_and_unit(p)]

\* the device_info argument has no part in what _register_ha_entity computes:
\* it is stored under the key device (line 269)
NoDeviceInfo == EmptyDict

\* line 253 per configuration, topic and payload, before the device block is
\* put in
entity_publish_locals ==
    [d \in DeviceIds |-> [n \in DeviceNames |-> [x \in DiscoveryPrefixes |->
     [t \in AllTopics |-> [p \in AllPayloads |->
        IF too_short(topic_parts(t)) THEN EmptyDict
        ELSE entity_publish_of(entity_type_of(entity_name_of(t), p), category_of(t),
                               entity_name_of(t), unique_id_of(d, t), object_id_of(n, t),
                               NoDeviceInfo, origin_info_of, t,
                               get_value_template_and_unit(p).template,
                               get_value_template_and_unit(p).unit, x, d)]]]]]

(***************************************************************************)
(* Bounds of the model                                                     *)
(***************************************************************************)
MaxMessages == 2

MaxConnects == 2

(***************************************************************************)
(* State                                                                   *)
(***************************************************************************)
VARIABLES
    ha_device_id,           \* self.ha_device_id (configuration)
    ha_device_name,         \* self.ha_device_name (configuration)
    mqtt_genmon_topic,      \* self.mqtt_genmon_topic (configuration)
    mqtt_discovery_prefix,  \* self.mqtt_discovery_prefix (configuration)
    ha_device_model,        \* self.ha_device_model
    ha_serial_number,       \* self.ha_serial_number
    ha_sw_version,          \* self.ha_sw_version
    registered_entities,    \* self.registered_entities
    published,              \* the client.publish calls issued so far, in order
    subscribed,             \* the topics passed to client.subscribe
    last,                   \* the most recent callback: arguments and locals
    derived,                \* the (topic, payload, unique_id, entity_type) computed so far
    n_messages,             \* number of on_message callbacks so far
    n_connects,             \* number of on_connect callbacks so far
    call,                   \* an isolated call of the pure helpers and its result
    error_log,              \* the logger.error calls so far, in order
    threads                 \* per handler thread: position and locals of its message

config_vars == <<ha_device_id, ha_device_name, mqtt_genmon_topic, mqtt_discovery_prefix>>

device_vars == <<ha_device_model, ha_serial_number, ha_sw_version>>

vars == <<ha_device_id, ha_device_name, mqtt_genmon_topic, mqtt_discovery_prefix,
          ha_device_model, ha_serial_number, ha_sw_version, registered_entities,
          published, subscribed, last, derived, n_messages, n_connects, call,
          error_log, threads>>

NoCall == [done |-> FALSE, topic |-> <<>>, payload |-> <<>>]

\* handler threads: the network loop thread of paho, and a second thread of a
\* transport that would deliver in parallel
Threads == {"loop", "second"}

Idle == [pc |-> "idle"]

NoThreads == [th \in Threads |-> Idle]

NoCallback ==
    [op |-> "init", topic |-> <<>>, payload |-> <<>>, rc |-> 0, outcome |-> "none",
     entity_type |-> <<>>, unique_id |-> <<>>]

\* __init__ (lines 35-67) for one set of constructor arguments
construct(c) ==
    /\ ha_device_id = c.ha_device_id
    /\ ha_device_name = c.ha_device_name
    /\ mqtt_genmon_topic = c.mqtt_genmon_topic
    /\ mqtt_discovery_prefix = c.mqtt_discovery_prefix
    /\ ha_device_model = c.ha_device_model
    /\ ha_serial_number = Str(S_Undefined)
    /\ ha_sw_version = Str(S_Undefined)
    /\ registered_entities = {}
    /\ published = <<>>
    /\ subscribed = {}
    /\ last = NoCallback
    /\ derived = {}
    /\ n_messages = 0
    /\ n_connects = 0
    /\ error_log = <<>>

Init ==
    /\ \E c \in Configs : construct(c)
    /\ call = NoCall
    /\ threads = NoThreads

(***************************************************************************)
(* Callbacks                                                               *)
(***************************************************************************)
\* _process_genmon_message(topic, payload), lines 183-257
process_genmon_message(topic, payload) ==
    LET entity_type == entity_type_locals[topic][payload]
        device_id == device_id_of(ha_device_id)
        unique_id == unique_id_locals[ha_device_id][topic]
        device_field == topic_locals[topic].device_field
        model == IF device_field.field = "model" THEN Str(payload) ELSE ha_device_model
        serial_number == IF device_field.field = "serial_number" THEN Str(payload)
                         ELSE ha_serial_number
        sw_version == IF device_field.field = "sw_version" THEN Str(payload)
                      ELSE ha_sw_version
        device_info == device_info_of(Str(device_id), ha_device_name, model,
                                      serial_number, sw_version)
        publish == [entity_publish_locals[ha_device_id][ha_device_name]
                        [mqtt_discovery_prefix][topic][payload]
                    EXCEPT !.payload.device = device_info]
        frame(outcome) == [op |-> "on_message", topic |-> topic, payload |-> payload,
                           rc |-> 0, outcome |-> outcome,
                           entity_type |-> entity_type, unique_id |-> unique_id]
    IN  IF topic_locals[topic].short
        THEN /\ last' = frame("short")
             /\ UNCHANGED <<device_vars, registered_entities, published, derived>>
        ELSE /\ derived' = derived \cup {[topic |-> topic, payload |-> payload,
                                          unique_id |-> unique_id,
                                          entity_type |-> entity_type]}
             /\ ha_device_model' = model
             /\ ha_serial_number' = serial_number
             /\ ha_sw_version' = sw_version
             /\ IF device_field.absorbed
                THEN /\ last' = frame("absorbed")
                     /\ UNCHANGED <<registered_entities, published>>
                ELSE IF not_registered(unique_id, registered_entities)
                THEN /\ published' = Append(published, publish)
                     /\ registered_entities' =
                            add_registered(unique_id, registered_entities)
                     /\ last' = frame("registered")
                ELSE /\ last' = frame("known")
                     /\ UNCHANGED <<registered_entities, published>>

\* on_message(client, userdata, msg), lines 109-130; the broker delivers
\* messages only for the subscription made in on_connect (line 101)
on_message(topic, payload) ==
    /\ subscribed # {}
    /\ n_messages < MaxMessages
    /\ n_messages' = n_messages + 1
    /\ IF startswith(topic, topic_prefix_of(mqtt_genmon_topic) \o <<"/">>)
       THEN process_genmon_message(topic, payload)
       ELSE /\ last' = [op |-> "on_message", topic |-> topic, payload |-> payload,
                        rc |-> 0, outcome |-> "foreign",
                        entity_type |-> <<>>, unique_id |-> <<>>]
            /\ UNCHANGED <<device_vars, registered_entities, published, derived>>
    /\ UNCHANGED <<config_vars, subscribed, n_connects, call, error_log, threads>>

\* the buttons with the serial number of construction time
register_command_buttons_stale_serial ==
    LET device_info == device_info_of(ha_device_id, ha_device_name, ha_device_model,
                                      Str(S_Undefined), ha_sw_version)
    IN  [i \in 1..Len(commands) |->
            button_publish_of(commands[i], ha_device_id, ha_device_name,
                              mqtt_genmon_topic, mqtt_discovery_prefix, device_info,
                              origin_info_of)]

\* the publish calls of _register_command_buttons, lines 316-369
register_command_buttons ==
    LET device_info == device_info_of(ha_device_id, ha_device_name, ha_device_model,
                                      ha_serial_number, ha_sw_version)
    IN  [i \in 1..Len(commands) |->
            button_publish_of(commands[i], ha_device_id, ha_device_name,
                              mqtt_genmon_topic, mqtt_discovery_prefix, device_info,
                              origin_info_of)]

\* on_connect(client, userdata, flags, rc), lines 95-107
on_connect(rc) ==
    /\ n_connects < MaxConnects
    /\ n_connects' = n_connects + 1
    /\ last' = [op |-> "on_connect", topic |-> <<>>, payload |-> <<>>, rc |-> rc,
                outcome |-> IF rc = 0 THEN "connected" ELSE "refused",
                entity_type |-> <<>>, unique_id |-> <<>>]
    /\ IF rc = 0
       THEN /\ subscribed' = subscribed \cup
                    {IF truthy(mqtt_genmon_topic) THEN mqtt_genmon_topic.val
                     ELSE S_generator_topic}
            /\ published' = published \o register_command_buttons
       ELSE UNCHANGED <<subscribed, published>>
    /\ error_log' = IF rc = 0 THEN error_log
                    ELSE Append(error_log, [line |-> 107, fault |-> "rc",
                                            unique_id |-> <<>>])
    /\ UNCHANGED <<config_vars, device_vars, registered_entities, derived,
                   n_messages, call, threads>>

Next ==
    \/ \E m \in Messages : on_message(m[1], m[2])
    \/ \E rc \in ResultCodes : on_connect(rc)

Spec == Init /\ [][Next]_vars

(***************************************************************************)
(* Callbacks in which a step raises.  A fault names the place that raises: *)
(* decode is msg.payload.decode (line 113, bytes that are not UTF-8),      *)
(* classify is _get_value_template_and_unit (line 248, json.loads raises   *)
(* a ValueError that is no JSONDecodeError, or a RecursionError), build is *)
(* the descriptor build (lines 264-312) and publish is client.publish      *)
(* (line 313, paho raises ValueError for a topic or payload it refuses).   *)
(***************************************************************************)
Faults == {"decode", "classify", "build", "publish"}

\* the class of the exception raised at the place
exception_of(fault) ==
    IF fault = "decode" THEN "UnicodeDecodeError"
    ELSE IF fault = "build" THEN "TypeError"
    ELSE "ValueError"

\* a handler that catches the JSON errors only
except_JSONDecodeError(exc) == exc = "JSONDecodeError"

\* except Exception (lines 129 and 256): the classes derived from Exception
except_Exception(exc) ==
    exc \in {"UnicodeDecodeError", "JSONDecodeError", "ValueError", "TypeError",
             "RecursionError", "KeyError", "AttributeError"}

\* registration that inserts the identity before it publishes
registered_on_raise_inserted(unique_id, registered) == registered \cup {unique_id}

\* registered_entities when line 253 raises: line 254 is not executed
registered_on_raise(unique_id, registered) == registered

\* the place of the fault is reached by the handling of the message
fault_reached(topic, payload, fault) ==
    \/ fault = "decode"
    \/ /\ startswith(topic, topic_prefix_of(mqtt_genmon_topic) \o <<"/">>)
       /\ ~topic_locals[topic].short
       /\ ~topic_locals[topic].device_field.absorbed
       /\ \/ fault = "classify"
          \/ not_registered(unique_id_locals[ha_device_id][topic], registered_entities)

\* on_message (lines 109-130) when the step named by fault raises
on_message_raising(topic, payload, fault) ==
    LET exc == exception_of(fault)
        unique_id == IF fault = "decode" THEN <<>>
                     ELSE unique_id_locals[ha_device_id][topic]
        entity_type == IF fault = "decode" THEN <<>>
                       ELSE entity_type_locals[topic][payload]
        device_field == topic_locals[topic].device_field
        \* the except clause that gets the exception: line 256 inside
        \* _process_genmon_message, line 129 for the decode of line 113
        caught == except_Exception(exc)
        frame(outcome) == [op |-> "on_message", topic |-> topic, payload |-> payload,
                           rc |-> 0, outcome |-> outcome,
                           entity_type |-> entity_type, unique_id |-> unique_id]
    IN  /\ subscribed # {}
        /\ n_messages < MaxMessages
        /\ fault_reached(topic, payload, fault)
        /\ n_messages' = n_messages + 1
        /\ last' = frame(IF caught THEN "error" ELSE "raised")
        /\ error_log' = IF ~caught THEN error_log
                        ELSE Append(error_log,
                                    [line |-> IF fault = "decode" THEN 130 ELSE 257,
                                     fault |-> fault, unique_id |-> unique_id])
        /\ IF fault = "decode"
           THEN UNCHANGED <<device_vars, registered_entities, derived>>
           ELSE /\ derived' = derived \cup {[topic |-> topic, payload |-> payload,
                                             unique_id |-> unique_id,
                                             entity_type |-> entity_type]}
                /\ ha_sw_version' = IF device_field.field = "sw_version"
                                    THEN Str(payload) ELSE ha_sw_version
                /\ UNCHANGED <<ha_device_model, ha_serial_number>>
                /\ registered_entities' =
                       IF fault = "classify" THEN registered_entities
                       ELSE registered_on_raise(unique_id, registered_entities)
        /\ UNCHANGED <<config_vars, published, subscribed, n_connects, call, threads>>

\* the messages delivered when steps can raise
FaultMessages ==
    {<<T_firmware, P_Evolution>>, <<T_battery, P_Yes>>, <<T_battery, P_volts>>,
     <<T_serial, P_volts>>}

NextFaults ==
    \/ \E m \in FaultMessages : on_message(m[1], m[2])
    \/ \E m \in FaultMessages : \E f \in Faults : on_message_raising(m[1], m[2], f)
    \/ \E rc \in ResultCodes : on_connect(rc)

SpecFaults == Init /\ [][NextFaults]_vars

(***************************************************************************)
(* Callbacks delivered on more than one thread.  The source takes no lock: *)
(* a thread can be switched out between the membership test (line 251),    *)
(* the publish (line 253) and the insertion (line 254).                    *)
(***************************************************************************)
\* on_message up to line 248 on thread th: the locals are computed and the
\* DeviceInfo fields set; the thread is then in front of line 251
receive(th, topic, payload) ==
    LET entity_type == entity_type_locals[topic][payload]
        unique_id == unique_id_locals[ha_device_id][topic]
        device_field == topic_locals[topic].device_field
        model == IF device_field.field = "model" THEN Str(payload) ELSE ha_device_model
        serial_number == IF device_field.field = "serial_number" THEN Str(payload)
                         ELSE ha_serial_number
        sw_version == IF device_field.field = "sw_version" THEN Str(payload)
                      ELSE ha_sw_version
        device_info == device_info_of(Str(device_id_of(ha_device_id)), ha_device_name,
                                      model, serial_number, sw_version)
        publish == [entity_publish_locals[ha_device_id][ha_device_name]
                        [mqtt_discovery_prefix][topic][payload]
                    EXCEPT !.payload.device = device_info]
        foreign == ~startswith(topic, topic_prefix_of(mqtt_genmon_topic) \o <<"/">>)
        short == topic_locals[topic].short
        frame(outcome) == [op |-> "on_message", topic |-> topic, payload |-> payload,
                           rc |-> 0, outcome |-> outcome,
                           entity_type |-> IF foreign THEN <<>> ELSE entity_type,
                           unique_id |-> IF foreign THEN <<>> ELSE unique_id]
    IN  /\ subscribed # {}
        /\ n_messages < MaxMessages
        /\ threads[th].pc = "idle"
        /\ n_messages' = n_messages + 1
        /\ IF foreign \/ short
           THEN /\ last' = frame(IF foreign THEN "foreign" ELSE "short")
                /\ UNCHANGED <<device_vars, derived, threads>>
           ELSE /\ derived' = derived \cup {[topic |-> topic, payload |-> payload,
                                             unique_id |-> unique_id,
                                             entity_type |-> entity_type]}
                /\ ha_device_model' = model
                /\ ha_serial_number' = serial_number
                /\ ha_sw_version' = sw_version
                /\ IF device_field.absorbed
                   THEN /\ last' = frame("absorbed")
                        /\ UNCHANGED threads
                   ELSE /\ last' = frame("received")
                        /\ threads' = [threads EXCEPT ![th] =
                               [pc |-> "check", unique_id |-> unique_id,
                                publish |-> publish]]
        /\ UNCHANGED <<config_vars, registered_entities, published, subscribed,
                       n_connects, call, error_log>>

\* line 251 on thread th: unique_id not in self.registered_entities
check(th) ==
    /\ threads[th].pc = "check"
    /\ threads' = [threads EXCEPT ![th] =
           IF not_registered(threads[th].unique_id, registered_entities)
           THEN [@ EXCEPT !.pc = "publish"]
           ELSE Idle]
    /\ UNCHANGED <<config_vars, device_vars, registered_entities, published, subscribed,
                   last, derived, n_messages, n_connects, call, error_log>>

\* line 253 on thread th: _register_ha_entity publishes the descriptor
publish_entity(th) ==
    /\ threads[th].pc = "publish"
    /\ published' = Append(published, threads[th].publish)
    /\ threads' = [threads EXCEPT ![th].pc = "insert"]
    /\ UNCHANGED <<config_vars, device_vars, registered_entities, subscribed,
                   last, derived, n_messages, n_connects, call, error_log>>

\* line 254 on thread th: self.registered_entities.add(unique_id)
insert(th) ==
    /\ threads[th].pc = "insert"
    /\ registered_entities' = add_registered(threads[th].unique_id, registered_entities)
    /\ threads' = [threads EXCEPT ![th] = Idle]
    /\ UNCHANGED <<config_vars, device_vars, published, subscribed,
                   last, derived, n_messages, n_connects, call, error_log>>

\* the messages delivered to the threads
ConcurrentMessages ==
    {<<T_battery, P_Yes>>, <<T_battery_split, P_Evolution>>, <<T_serial, P_volts>>,
     <<T_short, P_Yes>>}

NextConcurrent ==
    \/ \E th \in Threads : \E m \in ConcurrentMessages : receive(th, m[1], m[2])
    \/ \E th \in Threads : check(th)
    \/ \E th \in Threads : publish_entity(th)
    \/ \E th \in Threads : insert(th)
    \/ \E rc \in ResultCodes : on_connect(rc)

SpecConcurrent == Init /\ [][NextConcurrent]_vars

(***************************************************************************)
(* The pure helpers in isolation: one call of the payload classifier and   *)
(* of the entity-kind rules on a topic and a payload                       *)
(***************************************************************************)
T_state ==
    <<"g", "e", "n", "e", "r", "a", "t", "o", "r", "/", "s", "t", "a", "t", "u", "s", "/", "s", "t", "a", "t", "e">>

T_switch_state ==
    <<"g", "e", "n", "e", "r", "a", "t", "o", "r", "/", "s", "t", "a", "t", "u", "s", "/", "s", "w", "i", "t", "c", "h", "_", "s", "t", "a", "t", "e">>

T_State_upper ==
    <<"g", "e", "n", "e", "r", "a", "t", "o", "r", "/", "s", "t", "a", "t", "u", "s", "/", "S", "t", "a", "t", "e">>

T_command_x ==
    <<"g", "e", "n", "e", "r", "a", "t", "o", "r", "/", "s", "t", "a", "t", "u", "s", "/", "c", "o", "m", "m", "a", "n", "d", "/", "x">>

ClassifyTopics ==
    {T_state, T_switch_state, T_State_upper, T_command_x, T_command, T_battery}

P_json ==
    <<"{", "\"", "v", "a", "l", "u", "e", "\"", ":", " ", "1", "0", ",", " ", "\"", "u", "n", "i", "t", "\"", ":", " ", "\"", "A", "\"", "}">>

P_No ==
    <<"N", "o">>

P_Online ==
    <<"O", "n", "l", "i", "n", "e">>

P_Offline ==
    <<"O", "f", "f", "l", "i", "n", "e">>

P_True ==
    <<"T", "r", "u", "e">>

P_False ==
    <<"F", "a", "l", "s", "e">>

P_ON ==
    <<"O", "N">>

P_OFF ==
    <<"O", "F", "F">>

P_off_lower ==
    <<"o", "f", "f">>

P_true_lower ==
    <<"t", "r", "u", "e">>

P_one ==
    <<"1">>

P_due_date ==
    <<"B", "a", "t", "t", "e", "r", "y", " ", "C", "h", "e", "c", "k", " ", "D", "u", "e", ":", " ", "1", "2", "/", "2", "9", "/", "2", "0", "2", "5">>

P_date_next_line ==
    <<"D", "u", "e", ":", " ", "\n", "1", "/", "2", "/", "2", "0", "2", "5">>

P_json_date ==
    <<"{", "\"", "v", "a", "l", "u", "e", "\"", ":", " ", "\"", "1", "/", "2", "/", "2", "0", "2", "5", "\"", "}">>

P_json_unit_only ==
    <<"{", "\"", "u", "n", "i", "t", "\"", ":", " ", "\"", "A", "\"", "}">>

P_json_kwh ==
    <<"{", "\"", "v", "a", "l", "u", "e", "\"", ":", " ", "1", ".", "5", ",", " ", "\"", "u", "n", "i", "t", "\"", ":", " ", "\"", "k", "W", "h", "\"", "}">>

P_key_volts ==
    <<"B", "a", "t", "t", "e", "r", "y", ":", " ", "1", "2", ".", "5", " ", "V">>

P_key_value ==
    <<"M", "o", "d", "e", ":", " ", "A", "u", "t", "o">>

P_date_volts ==
    <<"1", "/", "2", "/", "2", "0", "2", "5", " ", "5", " ", "V">>

P_percent ==
    <<"5", "0", "%">>

P_number ==
    <<"1", "2">>

P_hours ==
    <<"1", "2", "0", ".", "5", " ", "h">>

ClassifyPayloads ==
    Payloads \cup
    {P_json, P_No, P_Online, P_Offline, P_True,
     P_False, P_ON, P_OFF, P_OFF_padded,
     P_off_lower, P_true_lower, P_one, P_due_date,
     P_date_next_line, P_json_date, P_json_unit_only, P_json_kwh,
     P_key_volts, P_key_value, P_date_volts, P_percent,
     P_number, P_hours}

InitClassify ==
    /\ \E c \in Configs : construct(c)
    /\ \E t \in ClassifyTopics : \E p \in ClassifyPayloads :
           call = [done |-> FALSE, topic |-> t, payload |-> p]
    /\ threads = NoThreads

\* lines 188-205 and 248 for the topic and payload of the call
classify ==
    /\ ~call.done
    /\ call.topic # <<>>
    /\ call' = [done |-> TRUE, topic |-> call.topic, payload |-> call.payload,
                entity_name |-> entity_name_of(call.topic),
                entity_type |-> entity_type_of(entity_name_of(call.topic), call.payload),
                unique_id |-> unique_id_of(ha_device_id, call.topic),
                template |-> get_value_template_and_unit(call.payload).template,
                unit |-> get_value_template_and_unit(call.payload).unit]
    /\ UNCHANGED <<config_vars, device_vars, registered_entities, published, subscribed,
                   last, derived, n_messages, n_connects, error_log, threads>>

NextClassify == classify

SpecClassify == InitClassify /\ [][NextClassify]_vars

(***************************************************************************)
(* _register_ha_entity in isolation: the descriptor and the discovery      *)
(* topic built for the first message of a topic and a payload              *)
(***************************************************************************)
T_runtime_total ==
    <<"g", "e", "n", "e", "r", "a", "t", "o", "r", "/", "s", "t", "a", "t", "u", "s", "/", "r", "u", "n", "t", "i", "m", "e", "/", "t", "o", "t", "a", "l">>

T_run_hours_due ==
    <<"g", "e", "n", "e", "r", "a", "t", "o", "r", "/", "M", "a", "i", "n", "t", "e", "n", "a", "n", "c", "e", "/", "r", "u", "n", "_", "h", "o", "u", "r", "s", "_", "d", "u", "e">>

T_Next_Service ==
    <<"g", "e", "n", "e", "r", "a", "t", "o", "r", "/", "M", "a", "i", "n", "t", "e", "n", "a", "n", "c", "e", "/", "N", "e", "x", "t", " ", "S", "e", "r", "v", "i", "c", "e">>

T_Run_Hours ==
    <<"g", "e", "n", "e", "r", "a", "t", "o", "r", "/", "s", "t", "a", "t", "u", "s", "/", "R", "u", "n", " ", "H", "o", "u", "r", "s">>

T_Last_Update ==
    <<"g", "e", "n", "e", "r", "a", "t", "o", "r", "/", "s", "t", "a", "t", "u", "s", "/", "L", "a", "s", "t", " ", "U", "p", "d", "a", "t", "e">>

P_json_unit_empty ==
    <<"{", "\"", "v", "a", "l", "u", "e", "\"", ":", " ", "1", ",", " ", "\"", "u", "n", "i", "t", "\"", ":", " ", "\"", "\"", "}">>

P_json_no_unit ==
    <<"{", "\"", "v", "a", "l", "u", "e", "\"", ":", " ", "5", "}">>

P_json_unit_h ==
    <<"{", "\"", "v", "a", "l", "u", "e", "\"", ":", " ", "5", ",", " ", "\"", "u", "n", "i", "t", "\"", ":", " ", "\"", "h", "\"", "}">>

P_kwh_text ==
    <<"1", "2", ".", "5", " ", "k", "W", "h">>

P_json_unit_zero ==
    <<"{", "\"", "v", "a", "l", "u", "e", "\"", ":", " ", "1", ",", " ", "\"", "u", "n", "i", "t", "\"", ":", " ", "0", "}">>

DescribeTopics ==
    {T_battery, T_runtime_total, T_run_hours_due, T_Next_Service, T_Run_Hours,
     T_Last_Update, T_state, T_command}

DescribePayloads ==
    {P_Yes, P_volts, P_number, P_hours, P_kwh_text, P_key_value, P_due_date,
     P_json, P_json_kwh, P_json_unit_h, P_json_unit_empty, P_json_unit_zero,
     P_json_no_unit}

\* the configurations of the bridge, and one whose device id is the empty text
DescribeConfigs ==
    Configs \cup
    {[ha_device_id |-> Str(<<>>), ha_device_name |-> Str(S_Generator),
      ha_device_model |-> Str(S_Generator_Monitor),
      mqtt_genmon_topic |-> Str(S_generator_topic),
      mqtt_discovery_prefix |-> Str(S_homeassistant)]}

InitDescribe ==
    /\ \E c \in DescribeConfigs : construct(c)
    /\ \E t \in DescribeTopics : \E p \in DescribePayloads :
           call = [done |-> FALSE, topic |-> t, payload |-> p]
    /\ threads = NoThreads

\* lines 188-253 for the topic and payload of the call on a bridge that has
\* registered nothing: the locals and the publish call of _register_ha_entity,
\* and next to it the publish calls that _register_command_buttons makes
describe ==
    /\ ~call.done
    /\ call.topic # <<>>
    /\ LET topic == call.topic
           payload == call.payload
           entity_name == entity_name_of(topic)
           entity_type == entity_type_of(entity_name, payload)
           unique_id == unique_id_of(ha_device_id, topic)
           device_info == device_info_of(Str(device_id_of(ha_device_id)), ha_device_name,
                                         ha_device_model, ha_serial_number,
                                         ha_sw_version)
           template_unit == get_value_template_and_unit(payload)
       IN  call' = [done |-> TRUE, topic |-> topic, payload |-> payload,
                    entity_name |-> entity_name,
                    entity_type |-> entity_type,
                    unique_id |-> unique_id,
                    template |-> template_unit.template,
                    unit |-> template_unit.unit,
                    publish |-> entity_publish_of(entity_type, category_of(topic),
                                    entity_name, unique_id,
                                    object_id_of(ha_device_name, topic), device_info,
                                    origin_info_of, topic, template_unit.template,
                                    template_unit.unit, mqtt_discovery_prefix,
                                    ha_device_id),
                    buttons |-> register_command_buttons]
    /\ UNCHANGED <<config_vars, device_vars, registered_entities, published, subscribed,
                   last, derived, n_messages, n_connects, error_log, threads>>

NextDescribe == describe

SpecDescribe == InitDescribe /\ [][NextDescribe]_vars

(***************************************************************************)
(* Vocabulary of the properties                                            *)
(***************************************************************************)
\* positions of the log that hold entity descriptors and button descriptors
EntityIdx == {i \in DOMAIN published : "payload_press" \notin DOMAIN published[i].payload}

ButtonIdx == {i \in DOMAIN published : "payload_press" \in DOMAIN published[i].payload}

\* positions the step under consideration appends to the log
NewIdx == (Len(published) + 1)..Len(published')

\* the step is the handling of one inbound message / of one connect event
MessageStep == n_messages' = n_messages + 1

ConnectStep == n_connects' = n_connects + 1

\* number of slash-separated segments of a topic
SegCount(t) == Cardinality({i \in 1..Len(t) : t[i] = "/"}) + 1

\* the payload is a boolean token with whitespace around it
IsPaddedToken(p) ==
    \E i \in 1..Len(p) : \E j \in i..Len(p) :
        /\ SubSeq(p, i, j) \in BoolTokens
        /\ AllSpace(p, 1, i - 1)
        /\ AllSpace(p, j + 1, Len(p))

DeviceInfoNow == <<ha_device_model, ha_serial_number, ha_sw_version>>

DeviceBlockInfo(d) == <<d.model, d.serial_number, d.sw_version>>

(***************************************************************************)
(* C1                                                                      *)
(***************************************************************************)
\* C1: under serial delivery at most one discovery-config publish is ever
\* issued for an entity identity, and handling a message whose identity is
\* already registered publishes nothing and leaves the registered set as it is.
C1_AtMostOnePublishPerIdentity ==
    /\ [](\A i \in EntityIdx : \A j \in EntityIdx :
             published[i].payload.unique_id = published[j].payload.unique_id => i = j)
    /\ [][(MessageStep /\ last'.unique_id \in registered_entities)
             => (published' = published /\ registered_entities' = registered_entities)]_vars

\* a message was handled whose identity had been published before
C1_Witness ==
    /\ last.op = "on_message"
    /\ last.unique_id \in registered_entities
    /\ last.outcome # "registered"
    /\ \E i \in EntityIdx : published[i].payload.unique_id = last.unique_id

(***************************************************************************)
(* C2                                                                      *)
(***************************************************************************)
\* C2 as stated: any two handled messages with the same topic have the same
\* derived unique_id and the same derived entity kind, whatever their payloads.
C2_SameTopicSameIdentityAndKind ==
    \A a \in derived : \A b \in derived :
        a.topic = b.topic
            => (a.unique_id = b.unique_id /\ a.entity_type = b.entity_type)

\* C2 as amended: any two handled messages with the same topic have the same
\* derived unique_id; their derived entity kind is the same when both payloads
\* are boolean tokens (after trimming) or neither is.
C2_SameTopicSameIdentity ==
    \A a \in derived : \A b \in derived :
        a.topic = b.topic
            => /\ a.unique_id = b.unique_id
               /\ (IsPaddedToken(a.payload) <=> IsPaddedToken(b.payload))
                      => a.entity_type = b.entity_type

\* one topic was handled with two different payloads of the same class, and
\* with a payload of the other class
C2_Witness ==
    \E a \in derived : \E b \in derived :
        /\ a.topic = b.topic
        /\ a.payload # b.payload
        /\ IsPaddedToken(a.payload) /\ IsPaddedToken(b.payload)
        /\ a.entity_type = b.entity_type

(***************************************************************************)
(* C3                                                                      *)
(***************************************************************************)
\* the signal name of the topic, as the code formats it, contains the text
FormattedNameHas(t, text) == contains(topic_locals[t].formatted_name, text)

\* every descriptor published by the step carries the DeviceInfo the object
\* holds when the publish call is made, and the log only grows
SnapshotAtPublish ==
    /\ SubSeq(published', 1, Len(published)) = published
    /\ \A i \in NewIdx :
           DeviceBlockInfo(published'[i].payload.device) = DeviceInfoNow'
    /\ (MessageStep /\ NewIdx # {} /\ FormattedNameHas(last'.topic, S_Firmware_Version))
           => \A i \in NewIdx :
                  published'[i].payload.device.sw_version = Str(last'.payload)

\* C3 as stated: every published descriptor (entity or button) carries the
\* DeviceInfo of the moment of its publish, and a descriptor that has been
\* published is not published again once DeviceInfo has changed: two publishes
\* of one unique_id never differ in their device block.
C3_SnapshotNeverRepublished ==
    [][/\ SnapshotAtPublish
       /\ \A i \in NewIdx : \A j \in DOMAIN published :
              published'[i].payload.unique_id = published[j].payload.unique_id
                  => DeviceBlockInfo(published'[i].payload.device)
                         = DeviceBlockInfo(published[j].payload.device)]_vars

\* C3 as amended: every published descriptor (entity or button) carries the
\* DeviceInfo of the moment of its publish (after a Firmware_Version message
\* that message's payload as sw_version); an entity descriptor that has been
\* published is never published again; button descriptors are published again
\* only by a successful connect, with the DeviceInfo held at that connect.
C3_SnapshotAtPublish ==
    [][/\ SnapshotAtPublish
       /\ \A i \in NewIdx :
              IF "payload_press" \in DOMAIN published'[i].payload
              THEN ConnectStep /\ last'.rc = 0
              ELSE /\ MessageStep
                   /\ \A j \in DOMAIN published :
                          published'[i].payload.unique_id
                              # published[j].payload.unique_id]_vars

\* the log holds a descriptor published before a Firmware_Version message and
\* an entity descriptor published after it
C3_Witness ==
    \E i \in DOMAIN published : \E j \in EntityIdx :
        /\ i < j
        /\ published[i].payload.device.sw_version = Str(S_Undefined)
        /\ published[j].payload.device.sw_version # Str(S_Undefined)
        /\ published[j].payload.device.sw_version = ha_sw_version
        /\ ~FormattedNameHas(published[j].payload.state_topic, S_Firmware_Version)

(***************************************************************************)
(* C4                                                                      *)
(***************************************************************************)
\* the signal name of each topic in its underscored form, in lower case
underscored_names ==
    [t \in AllTopics |->
        IF SegCount(t) >= 3
        THEN lower(replace_char(entity_name_of(t), " ", "_")) ELSE <<>>]

\* the underscored signal name of the topic contains the text in any letter case
UnderscoredNameHas(t, text) == contains(underscored_names[t], lower(text))

\* C4: for every message with at least 3 topic segments whose underscored
\* signal name contains Controller_Detected (Generator_Serial_Number) in any
\* letter case, the device model (serial number) becomes the payload, nothing
\* is published and the registered set is unchanged.
C4_SpecialSignalsAbsorbed ==
    [][/\ (MessageStep /\ SegCount(last'.topic) >= 3
              /\ UnderscoredNameHas(last'.topic, S_Controller_Detected))
           => /\ ha_device_model' = Str(last'.payload)
              /\ published' = published
              /\ registered_entities' = registered_entities
       /\ (MessageStep /\ SegCount(last'.topic) >= 3
              /\ UnderscoredNameHas(last'.topic, S_Generator_Serial_Number))
           => /\ ha_serial_number' = Str(last'.payload)
              /\ published' = published
              /\ registered_entities' = registered_entities]_vars

(***************************************************************************)
(* C5                                                                      *)
(***************************************************************************)
\* what C5 says of the step that handles a Firmware_Version message: the
\* firmware version becomes the payload, and an identity that is not yet
\* registered gets its descriptor published in the same step, with the new
\* firmware version in the device block
FirmwareEffect ==
    /\ ha_sw_version' = Str(last'.payload)
    /\ last'.unique_id \notin registered_entities
           => /\ Len(published') = Len(published) + 1
              /\ LET d == published'[Len(published')].payload
                 IN  /\ "payload_press" \notin DOMAIN d
                     /\ d.unique_id = last'.unique_id
                     /\ d.device.sw_version = Str(last'.payload)
              /\ last'.unique_id \in registered_entities'

\* C5 as stated: every message whose signal name contains Firmware_Version
\* sets the firmware version to its payload and is not absorbed.
C5_FirmwareAlwaysSet ==
    [][(MessageStep /\ FormattedNameHas(last'.topic, S_Firmware_Version))
           => FirmwareEffect]_vars

\* C5 as amended: every message whose signal name contains Firmware_Version,
\* and neither Controller_Detected nor Generator_Serial_Number, sets the
\* firmware version to its payload (also when its identity is registered) and
\* is not absorbed.
C5_FirmwareSetUnlessAbsorbed ==
    [][(MessageStep /\ FormattedNameHas(last'.topic, S_Firmware_Version)
            /\ ~FormattedNameHas(last'.topic, S_Controller_Detected)
            /\ ~FormattedNameHas(last'.topic, S_Generator_Serial_Number))
           => FirmwareEffect]_vars

\* a Firmware_Version message of a registered identity has changed the
\* firmware version; the descriptor published for it holds the earlier one
C5_Witness ==
    /\ last.op = "on_message"
    /\ FormattedNameHas(last.topic, S_Firmware_Version)
    /\ ha_sw_version = Str(last.payload)
    /\ \E i \in EntityIdx :
           /\ published[i].payload.unique_id = last.unique_id
           /\ published[i].payload.device.sw_version # ha_sw_version
           /\ published[i].payload.device.sw_version # Str(S_Undefined)

(***************************************************************************)
(* C6                                                                      *)
(***************************************************************************)
\* C6 as stated, the clause on the initial state: model, serial number and
\* firmware version all hold "Undefined" after construction.
C6_AllStartUndefined ==
    last.op = "init"
        => /\ ha_device_model = Str(S_Undefined)
           /\ ha_serial_number = Str(S_Undefined)
           /\ ha_sw_version = Str(S_Undefined)

\* C6 as amended: after construction serial number and firmware version hold
\* "Undefined" and the model holds the configured device model; afterwards each
\* of the three fields changes only when a message of its own special signal
\* is handled, and then to that message's payload.
C6_FieldsChangeOnlyByOwnSignal ==
    /\ [](last.op = "init"
             => /\ ha_device_model \in {c.ha_device_model : c \in Configs}
                /\ ha_serial_number = Str(S_Undefined)
                /\ ha_sw_version = Str(S_Undefined))
    /\ [][/\ ha_device_model' # ha_device_model
              => /\ MessageStep
                 /\ FormattedNameHas(last'.topic, S_Controller_Detected)
                 /\ ha_device_model' = Str(last'.payload)
          /\ ha_serial_number' # ha_serial_number
              => /\ MessageStep
                 /\ FormattedNameHas(last'.topic, S_Generator_Serial_Number)
                 /\ ha_serial_number' = Str(last'.payload)
          /\ ha_sw_version' # ha_sw_version
              => /\ MessageStep
                 /\ FormattedNameHas(last'.topic, S_Firmware_Version)
                 /\ ha_sw_version' = Str(last'.payload)]_vars

\* a serial-number message has just been handled after a firmware message,
\* with registrations and a connect in between or before
C6_Witness ==
    /\ last.op = "on_message"
    /\ FormattedNameHas(last.topic, S_Generator_Serial_Number)
    /\ ha_serial_number = Str(last.payload)
    /\ ha_sw_version \notin {Str(S_Undefined), ha_serial_number}
    /\ ButtonIdx # {}
    /\ EntityIdx # {}

(***************************************************************************)
(* C7                                                                      *)
(***************************************************************************)
\* C7: a message whose topic has fewer than 3 segments is discarded: nothing
\* is published, and the registered set and DeviceInfo are unchanged, for
\* every payload.
C7_ShortTopicDiscarded ==
    [][(MessageStep /\ SegCount(last'.topic) < 3)
           => /\ published' = published
              /\ registered_entities' = registered_entities
              /\ DeviceInfoNow' = DeviceInfoNow]_vars

\* a two-segment message named like the firmware signal was handled with a
\* boolean token as payload
C7_Witness ==
    /\ last.op = "on_message"
    /\ SegCount(last.topic) = 2
    /\ contains(lower(last.topic), lower(S_Firmware_Version))
    /\ IsPaddedToken(last.payload)

(***************************************************************************)
(* C8                                                                      *)
(***************************************************************************)
\* C8: the registered set is exactly the set of entity identities for which
\* a discovery-config publish has been issued; it starts empty, only grows,
\* and connect events and button registration never add to it.
C8_RegisteredIsPublished ==
    /\ registered_entities = {}
    /\ [](/\ registered_entities
                 = {published[i].payload.unique_id : i \in EntityIdx}
          /\ \A i \in ButtonIdx :
                 published[i].payload.unique_id \notin registered_entities)
    /\ [][/\ registered_entities \subseteq registered_entities'
          /\ ConnectStep => registered_entities' = registered_entities]_vars

\* entities are registered and button descriptors have been published
C8_Witness ==
    /\ Cardinality(registered_entities) >= 2
    /\ ButtonIdx # {}
    /\ last.op = "on_connect"

(***************************************************************************)
(* C9                                                                      *)
(***************************************************************************)
\* the payload is a JSON object with the key value
ShapeJson(p) == json_loads(p).ok /\ dict_has(json_loads(p).items, S_value)

\* the payload contains a date D{1,2}/D{1,2}/YYYY somewhere
ShapeDate(p) == \E i \in 1..Len(p) : date_at(p, i)

\* the payload ends with a number, optional whitespace and unit letters
ShapeValueUnit(p) ==
    \E u \in 1..(Len(p) - 1) :
        /\ \A k \in (u + 1)..Len(p) : IsUnitChar(p[k])
        /\ \E c \in 1..u :
              AllSpace(p, c + 1, u) /\ \E b \in 0..(c - 1) : number_at(p, b + 1, c)

\* the payload contains ": "
ShapeColon(p) == contains(p, S_colon_space)

\* C9: payload classification is a first-match-wins cascade in the order
\* JSON object with value key, date pattern, numeric with unit suffix,
\* colon-delimited, raw: the result is the representation of the earliest
\* shape the payload satisfies, and the unit is non-none only for a JSON object
\* (its unit field) and for a numeric-with-unit payload.
C9_FirstMatchWins ==
    call.done
        => LET p == call.payload
           IN  /\ call.template =
                      (IF ShapeJson(p) THEN TemplateJson
                       ELSE IF ShapeDate(p) THEN TemplateDate
                       ELSE IF ShapeValueUnit(p) THEN TemplateValueUnit
                       ELSE IF ShapeColon(p) THEN TemplateColon
                       ELSE TemplateRaw)
               /\ call.unit.some
                      => \/ ShapeJson(p)
                               /\ call.unit = dict_get(json_loads(p).items, S_unit)
                         \/ ~ShapeJson(p) /\ ~ShapeDate(p) /\ ShapeValueUnit(p)

(***************************************************************************)
(* C10                                                                     *)
(***************************************************************************)
\* C10: the entity kind is binary_sensor when the trimmed payload is a
\* boolean token (also for the name command); else binary_sensor for the
\* names state and switch_state; else switch for the name command; else
\* sensor.  It is always one of the three kinds, and switch only for the name
\* command with a payload that is no boolean token.
C10_EntityKindRules ==
    call.done
        => LET token == IsPaddedToken(call.payload)
               name == call.entity_name
           IN  /\ call.entity_type \in {S_sensor, S_binary_sensor, S_switch}
               /\ token => call.entity_type = S_binary_sensor
               /\ (~token /\ name \in {S_state, S_switch_state})
                      => call.entity_type = S_binary_sensor
               /\ (~token /\ name = S_command) => call.entity_type = S_switch
               /\ (~token /\ name \notin {S_state, S_switch_state, S_command})
                      => call.entity_type = S_sensor
               /\ call.entity_type = S_switch => (name = S_command /\ ~token)

\* the kind was derived for the name command with a padded boolean token
C10_Witness ==
    /\ call.done
    /\ call.entity_name = S_command
    /\ call.payload = P_OFF_padded
    /\ call.entity_type = S_binary_sensor

(***************************************************************************)
(* C11                                                                     *)
(***************************************************************************)
\* the descriptor of the isolated registration, once it has been built
Described == call.done /\ "publish" \in DOMAIN call

\* the lower-cased signal name contains one of the words
NameHasWord(words) == \E w \in words : contains(lower(call.entity_name), w)

DateWords == {S_due, S_next, S_date}

RunHourWords == {S_runtime, S_run_hours, S_run_hours_sp, S_total_run_hours}

\* the device class the ordered checks give: date by name, then energy by
\* unit, then duration by unit or by name without a unit
OrderedDeviceClass ==
    IF NameHasWord(DateWords) THEN "date"
    ELSE IF call.unit = Str(S_kWh) THEN "energy"
    ELSE IF call.unit = Str(S_h) \/ (call.unit = None /\ NameHasWord(RunHourWords))
    THEN "duration"
    ELSE "none"

\* C11: a sensor descriptor gets its device_class from the checks date-by-name,
\* energy-by-unit (kWh), duration (unit h, or no unit and a run-hours name), in
\* this order and at most one of them: a name containing due, next or date
\* gives date whatever the unit is, and state_class total_increasing is there
\* exactly when the device_class is energy or duration.
C11_DeviceClassInOrder ==
    (Described /\ call.entity_type = S_sensor) =>
        LET config == call.publish.payload
            has_class == "device_class" \in DOMAIN config
            has_state_class == "state_class" \in DOMAIN config
        IN  /\ has_class <=> OrderedDeviceClass # "none"
            /\ has_class => config.device_class = OrderedDeviceClass
            /\ NameHasWord(DateWords) => has_class /\ config.device_class = "date"
            /\ has_state_class <=>
                   (has_class /\ config.device_class \in {"energy", "duration"})
            /\ has_state_class => config.state_class = "total_increasing"

\* a sensor named run_hours_due registered from a payload in kWh: the name
\* decides, the descriptor says date and has no state_class
C11_Witness ==
    /\ Described
    /\ call.entity_type = S_sensor
    /\ call.topic = T_run_hours_due
    /\ call.unit = Str(S_kWh)
    /\ call.publish.payload.device_class = "date"
    /\ "state_class" \notin DOMAIN call.publish.payload

(***************************************************************************)
(* C12                                                                     *)
(***************************************************************************)
\* the three buttons by display name and remote-command payload
ThreeButtons ==
    <<[name |-> <<"S", "t", "a", "r", "t", " ", "G", "e", "n", "e", "r", "a", "t", "o", "r">>,
       press |-> <<"s", "e", "t", "r", "e", "m", "o", "t", "e", "=", "s", "t", "a", "r", "t">>],
      [name |-> <<"S", "t", "o", "p", " ", "G", "e", "n", "e", "r", "a", "t", "o", "r">>,
       press |-> <<"s", "e", "t", "r", "e", "m", "o", "t", "e", "=", "s", "t", "o", "p">>],
      [name |-> <<"S", "t", "a", "r", "t", " ", "a", "n", "d", " ", "T", "r", "a", "n", "s", "f", "e", "r", " ", "S", "w", "i", "t", "c", "h">>,
       press |-> <<"s", "e", "t", "r", "e", "m", "o", "t", "e", "=", "s", "t", "a", "r", "t", "t", "r", "a", "n", "s", "f", "e", "r">>]>>

\* <upstreamPrefix>/command: the first segment of the configured upstream
\* topic, generator when none is configured
UpstreamCommandTopic ==
    (IF truthy(mqtt_genmon_topic) THEN split(mqtt_genmon_topic.val, "/")[1]
     ELSE S_generator) \o <<"/">> \o S_command

\* C12: a connect event with result code 0 publishes exactly three retained
\* button descriptors (Start Generator, Stop Generator, Start and Transfer
\* Switch with their setremote payloads), each with command topic
\* <upstreamPrefix>/command; a connect event with another result code publishes
\* nothing; handling a message never publishes a button descriptor.
C12_ThreeButtonsPerConnect ==
    [][/\ (ConnectStep /\ last'.rc = 0) =>
              /\ Len(published') = Len(published) + Len(ThreeButtons)
              /\ SubSeq(published', 1, Len(published)) = published
              /\ \A k \in DOMAIN ThreeButtons :
                     LET p == published'[Len(published) + k]
                     IN  /\ p.retain
                         /\ p.payload.name = ThreeButtons[k].name
                         /\ p.payload.payload_press = ThreeButtons[k].press
                         /\ p.payload.command_topic = UpstreamCommandTopic
       /\ (ConnectStep /\ last'.rc # 0) => published' = published
       /\ MessageStep => \A i \in NewIdx : "payload_press" \notin DOMAIN published'[i].payload
      ]_vars

\* a successful connect, a registering message and a second successful
\* connect: six button descriptors and an entity descriptor in the log
C12_Witness ==
    /\ last.op = "on_connect"
    /\ last.rc = 0
    /\ Cardinality(ButtonIdx) = Len(ThreeButtons) + Len(ThreeButtons)
    /\ EntityIdx # {}

(***************************************************************************)
(* C13                                                                     *)
(***************************************************************************)
\* the k-th button descriptor of the first successful connection
FirstButton(k) ==
    published[(CHOOSE i \in ButtonIdx : \A j \in ButtonIdx : i <= j) + k - 1]

\* the k-th publish of the step under consideration
NewPublish(k) == published'[Len(published) + k]

\* the step is a successful connection that is not the first one
ReconnectStep == ConnectStep /\ last'.rc = 0 /\ ButtonIdx # {}

\* C13 as stated: the button descriptors of a reconnect are identical, field
\* for field including the device block, to those of the first connection,
\* whatever messages were handled in between.
C13_ReconnectIdentical ==
    [][ReconnectStep => \A k \in DOMAIN ThreeButtons : NewPublish(k) = FirstButton(k)]_vars

\* C13 amended: the button descriptors of a reconnect equal those of the first
\* connection in topic, retain flag and every field but the model, serial
\* number and firmware version of the device block, which are DeviceInfo as it
\* is at the reconnect; so they are identical when DeviceInfo has not changed.
C13_ReconnectIdenticalButDeviceInfo ==
    [][ReconnectStep =>
          \A k \in DOMAIN ThreeButtons :
              NewPublish(k) = [FirstButton(k) EXCEPT
                                  !.payload.device.model = ha_device_model,
                                  !.payload.device.serial_number = ha_serial_number,
                                  !.payload.device.sw_version = ha_sw_version]]_vars

\* a reconnect after a Generator_Serial_Number message: the buttons of the two
\* connections differ in the serial number of the device block
C13_Witness ==
    /\ last.op = "on_connect"
    /\ last.rc = 0
    /\ Cardinality(ButtonIdx) = Len(ThreeButtons) + Len(ThreeButtons)
    /\ \E i, j \in ButtonIdx :
           /\ i < j
           /\ published[i].payload.unique_id = published[j].payload.unique_id
           /\ published[i].payload.device.serial_number = Str(S_Undefined)
           /\ published[j].payload.device.serial_number = Str(P_volts)

(***************************************************************************)
(* C14                                                                     *)
(***************************************************************************)
\* identities of the entity descriptors in the log
PublishedIdentities == {published[i].payload.unique_id : i \in EntityIdx}

\* the step handles a message in which something raised
ErrorStep == MessageStep /\ last'.outcome \in {"error", "raised"}

\* C14: handling a message finishes without propagating an error to the
\* caller, also when a step of it raises (the error is logged, nothing is
\* published and the registered set is as before); afterwards the handler
\* processes the next message normally: a message with an unregistered
\* identity is registered, one with a registered identity is not.
C14_NoErrorPropagates ==
    /\ [](last.outcome # "raised")
    /\ [](registered_entities = PublishedIdentities)
    /\ [][ErrorStep =>
              /\ Len(error_log') = Len(error_log) + 1
              /\ published' = published
              /\ registered_entities' = registered_entities]_vars
    /\ [][(MessageStep /\ ~ErrorStep /\ error_log # <<>>) =>
              /\ last'.outcome \in {"short", "foreign", "absorbed", "registered", "known"}
              /\ last'.outcome = "registered" =>
                     /\ last'.unique_id \notin registered_entities
                     /\ Len(published') = Len(published) + 1
                     /\ published'[Len(published')].payload.unique_id = last'.unique_id
              /\ last'.outcome = "known" =>
                     /\ last'.unique_id \in registered_entities
                     /\ published' = published]_vars

\* the publish of a registration raised, the error was logged, and a later
\* message has been registered
C14_Witness ==
    /\ \E i \in DOMAIN error_log : error_log[i].fault = "publish"
    /\ last.op = "on_message"
    /\ last.outcome = "registered"

(***************************************************************************)
(* C19                                                                     *)
(***************************************************************************)
\* the step handles a message whose descriptor build or publish call raised
RegistrationRaisedStep ==
    /\ ErrorStep
    /\ Len(error_log') = Len(error_log) + 1
    /\ error_log'[Len(error_log')].fault \in {"build", "publish"}

\* the step handles, without a raise, a message that yields an identity
EntityMessageStep ==
    MessageStep /\ last'.outcome \in {"registered", "known"}

\* C19: an identity is in the registered set only after the publish call for
\* its descriptor has returned: when the descriptor build or the publish call
\* raises, the identity is not inserted and nothing is in the log for it, a
\* firmware version set earlier in the same handling step is kept, and the
\* next message with that identity is registered (its publish is attempted
\* again).
C19_InsertedOnlyAfterPublish ==
    /\ [](registered_entities \subseteq PublishedIdentities)
    /\ [][RegistrationRaisedStep =>
              /\ last'.unique_id \notin registered_entities'
              /\ published' = published
              /\ FormattedNameHas(last'.topic, S_Firmware_Version) =>
                     ha_sw_version' = Str(last'.payload)]_vars
    /\ [][(EntityMessageStep /\ last'.unique_id \notin PublishedIdentities) =>
              /\ last'.outcome = "registered"
              /\ Len(published') = Len(published) + 1
              /\ published'[Len(published')].payload.unique_id = last'.unique_id
              /\ last'.unique_id \in registered_entities']_vars

\* the publish for the firmware-version entity raised with the firmware
\* version already set, and the next message with that identity has been
\* registered
C19_Witness ==
    /\ \E i \in DOMAIN error_log :
           /\ error_log[i].fault = "publish"
           /\ error_log[i].unique_id = last.unique_id
    /\ last.topic = T_firmware
    /\ last.outcome = "registered"
    /\ ha_sw_version = Str(last.payload)
    /\ last.unique_id \in registered_entities

(***************************************************************************)
(* C15                                                                     *)
(***************************************************************************)
\* C15: every binary_sensor descriptor has the fixed boolean-mapping template
\* (ON for Yes, ON, Online, True, true, 1, OFF otherwise) and payload_on ON,
\* payload_off OFF, whatever template the payload classifier derived; sensor
\* and switch descriptors have the classifier's template.
C15_BinaryTemplateFixed ==
    Described =>
        LET config == call.publish.payload
        IN  /\ call.entity_type = S_binary_sensor =>
                   /\ config.value_template =
                          "{{ 'ON' if value in ['Yes', 'ON', 'Online', 'True', 'true', '1'] else 'OFF' }}"
                   /\ config.payload_on = "ON"
                   /\ config.payload_off = "OFF"
            /\ call.entity_type \in {S_sensor, S_switch} =>
                   config.value_template = call.template

\* a binary_sensor by name (state) registered from the payload 25.5 V, for
\* which the classifier derived the number-with-unit template
C15_Witness ==
    /\ Described
    /\ call.topic = T_state
    /\ call.payload = P_volts
    /\ call.entity_type = S_binary_sensor
    /\ call.template = TemplateValueUnit
    /\ call.publish.payload.value_template = TemplateBinary

(***************************************************************************)
(* C16                                                                     *)
(***************************************************************************)
HasUnitKey(config) == "unit_of_measurement" \in DOMAIN config

\* no button descriptor has a unit
ButtonsWithoutUnit == \A k \in DOMAIN call.buttons : ~HasUnitKey(call.buttons[k].payload)

\* the unit the classifier derived is a text with characters in it, or a
\* number other than zero
NonEmptyUnit ==
    /\ call.unit # None
    /\ call.unit.val # <<>>
    /\ ~(call.unit.type = "num" /\ \A i \in DOMAIN call.unit.val :
                                      call.unit.val[i] \in {"0", "-", "."})

\* C16 as stated: a descriptor contains unit_of_measurement exactly when its
\* kind is sensor and the payload classifier derived a unit for the
\* registering payload; binary_sensor, switch and button descriptors never
\* contain it.
C16_UnitExactlyWhenDerived ==
    Described =>
        /\ HasUnitKey(call.publish.payload) <=>
               (call.entity_type = S_sensor /\ call.unit # None)
        /\ ButtonsWithoutUnit

\* C16 amended: a descriptor contains unit_of_measurement, with the derived
\* unit as its value, exactly when its kind is sensor and the classifier
\* derived a unit that is non-empty (not the empty text of a JSON payload
\* with "unit": "", not the number zero); binary_sensor, switch and button
\* descriptors never contain it, and neither does a sensor with no derived unit.
C16_UnitExactlyWhenNonEmpty ==
    Described =>
        /\ HasUnitKey(call.publish.payload) <=>
               (call.entity_type = S_sensor /\ NonEmptyUnit)
        /\ HasUnitKey(call.publish.payload) =>
               call.publish.payload.unit_of_measurement = call.unit
        /\ ButtonsWithoutUnit

\* a sensor registered from 25.5 V carries the unit V
C16_Witness ==
    /\ Described
    /\ call.topic = T_battery
    /\ call.payload = P_volts
    /\ call.entity_type = S_sensor
    /\ call.publish.payload.unit_of_measurement = Str(<<"V">>)

(***************************************************************************)
(* C17                                                                     *)
(***************************************************************************)
\* <discoveryPrefix>/<entityKind>/<deviceId>/<uniqueId>/<leaf>
DiscoveryPath(kind, device, unique_id, leaf) ==
    fstr(mqtt_discovery_prefix) \o <<"/">> \o kind \o <<"/">> \o device \o <<"/">>
        \o unique_id \o <<"/">> \o leaf

\* C17: every entity descriptor is published retained to
\* <discoveryPrefix>/<entityKind>/<deviceId>/<uniqueId>/config, and a switch's
\* command topic is the same path ending in /set, where the kind is the one
\* chosen for the message, the unique id is the descriptor's, and the device
\* id is the one that prefixes the unique id and is the descriptor's device
\* identifier, for every configured device id, also an empty or missing one.
C17_TopicNamesTheDevice ==
    Described =>
        LET config == call.publish.payload
            device == config.device.identifiers[1].val
        IN  /\ call.publish.retain
            /\ Len(config.device.identifiers) = 1
            /\ startswith(config.unique_id, device \o <<"_">>)
            /\ call.publish.topic =
                   DiscoveryPath(call.entity_type, device, config.unique_id, S_config)
            /\ call.entity_type = S_switch =>
                   config.command_topic =
                       DiscoveryPath(call.entity_type, device, config.unique_id, S_set)

(***************************************************************************)
(* C18                                                                     *)
(***************************************************************************)
\* C18: registration is one atomic register-if-absent step: also when two
\* messages with the same identity are handled concurrently, interleaved
\* between the membership check, the publish and the insertion, at most one
\* discovery-config publish is issued for an identity.
C18_OnePublishWhenConcurrent ==
    \A i, j \in EntityIdx :
        published[i].payload.unique_id = published[j].payload.unique_id => i = j

(***************************************************************************)
(* C20                                                                     *)
(***************************************************************************)
\* the step handles a message that yields an identity already in the log
KnownIdentityStep ==
    /\ MessageStep
    /\ last'.outcome \in {"registered", "known"}
    /\ last'.unique_id \in PublishedIdentities

\* the step registers the identity of its message
RegisteringStep == MessageStep /\ last'.outcome = "registered"

\* C20: the descriptor of an identity is fixed by the first message that
\* yields the identity: its kind, value template, unit and state topic are
\* those of that message, it stays in the log as it is, and every later
\* message with the same identity publishes nothing, also when its payload
\* would give another kind, template or unit or when it comes on another topic
\* that maps to the same identity.
C20_FixedByFirstMessage ==
    /\ [][RegisteringStep =>
              LET p == published'[Len(published')]
                  kind == entity_type_locals[last'.topic][last'.payload]
                  derived_now == template_unit_locals[last'.payload]
              IN  /\ Len(published') = Len(published) + 1
                  /\ \A d \in derived : d.unique_id # last'.unique_id
                  /\ p.payload.unique_id = last'.unique_id
                  /\ p.payload.state_topic = last'.topic
                  /\ startswith(p.payload.default_entity_id, kind \o <<".">>)
                  /\ p.payload.value_template =
                         IF kind = S_binary_sensor THEN TemplateBinary
                         ELSE derived_now.template
                  /\ HasUnitKey(p.payload) <=> (kind = S_sensor /\ truthy(derived_now.unit))
                  /\ HasUnitKey(p.payload) =>
                         p.payload.unit_of_measurement = derived_now.unit
       ]_vars
    /\ [][KnownIdentityStep => published' = published /\ last'.outcome = "known"]_vars
    /\ [][\A i \in DOMAIN published : published'[i] = published[i]]_vars

\* the identity was registered as a binary_sensor from generator/Status/Battery
\* Voltage = Yes; the message generator/Status/Battery/Voltage = Evolution,
\* which has the same identity and would give a sensor, has published nothing
C20_Witness ==
    /\ last.op = "on_message"
    /\ last.topic = T_battery_split
    /\ last.outcome = "known"
    /\ last.entity_type = S_sensor
    /\ \E i \in EntityIdx :
           /\ published[i].payload.unique_id = last.unique_id
           /\ published[i].payload.state_topic = T_battery
           /\ published[i].payload.value_template = TemplateBinary
    /\ Cardinality(EntityIdx) = Cardinality(registered_entities)

====
